---------------------------- MODULE Spec2Model ----------------------------
(***************************************************************************)
(* A model of prizm.console.Console (src/prizm/console.py): a console     *)
(* logger that prints to the terminal and appends plain-text records to a *)
(* timestamped log file.                                                   *)
(*                                                                         *)
(* The terminal is modelled as the sequence of calls made to the output    *)
(* functions (the builtin print and the twelve colour functions of         *)
(* prizm.util.color); the file system as a function from the paths that    *)
(* exist to the sequence of strings written to each.                       *)
(***************************************************************************)
EXTENDS Integers, Sequences, FiniteSets, TLC

VARIABLES
    directory,  \* self.directory
    terminal,   \* self.terminal
    _log,       \* self._log
    path,       \* self.path
    labels,     \* self.labels
    stdout,     \* calls made to the terminal output functions, in order
    files,      \* path -> strings written to the file at that path, in order
    raised,     \* the exception the last call raised ("none": it returned)
    last,       \* the last call made on the Console: its arguments, and how
                \* the file system answered it
    ncalls,     \* number of log/out/warning/error calls made so far
    ref         \* a second run: the same calls, without the set_log calls

vars == <<directory, terminal, _log, path, labels, stdout, files, raised,
          last, ncalls, ref>>

---------------------------------------------------------------------------
(* Bounds of the model *)

\* at most this many log/out/warning/error calls in a run
MaxCalls == 2

\* at most this many label() calls in a run
MaxLabels == 2

---------------------------------------------------------------------------
(* Python values *)

\* Python's None (the default of color= and label=); no str input equals it
None == "None"

\* a str argument
PyStr(s) == [type |-> "str", s |-> s, n |-> 0]

\* an int argument
PyInt(n) == [type |-> "int", s |-> "", n |-> n]

Digit(d) ==
    CASE d = 0 -> "0" [] d = 1 -> "1" [] d = 2 -> "2" [] d = 3 -> "3"
      [] d = 4 -> "4" [] d = 5 -> "5" [] d = 6 -> "6" [] d = 7 -> "7"
      [] d = 8 -> "8" [] d = 9 -> "9"

RECURSIVE IntToStr(_)
\* str(n) of a non-negative int: its decimal digits
IntToStr(n) == IF n < 10 THEN Digit(n) ELSE IntToStr(n \div 10) \o Digit(n % 10)

\* str(v)
str(v) == IF v.type = "str" THEN v.s ELSE IntToStr(v.n)

\* map(str, args)
map_str(args) == [i \in 1..Len(args) |-> str(args[i])]

RECURSIVE join(_, _)
\* sep.join(strs)
join(sep, strs) ==
    IF Len(strs) = 0 THEN ""
    ELSE IF Len(strs) = 1 THEN strs[1]
    ELSE strs[1] \o sep \o join(sep, Tail(strs))

\* x in lst (list membership)
In(x, lst) == \E i \in 1..Len(lst) : lst[i] = x

---------------------------------------------------------------------------
(* Inputs *)

\* directories a Console is constructed with
Directories == {"./log/", "./tmp_log/"}

\* values of int(time.time() * 1000) at construction
Timestamps == {1000}

\* argument tuples passed as *args
ArgSeqs == {<<>>, <<PyStr("x"), PyInt(12)>>}

\* the twelve colour names _color_switch knows
ColorNames == {"GRE", "RED", "BLU", "YEL", "MAG", "CYA",
               "BGRE", "BRED", "BBLU", "BYEL", "BMAG", "BCYA"}

\* every value of color= considered: none, a known name, an unknown name
AllColors == {None, "PURPLE"} \cup ColorNames

\* values the calls of a run pass as color=
Colors == {None, "BCYA", "PURPLE"}

\* strings passed to label() and as label=
LabelNames == {"A", "B"}

\* how the file system answers one _write: every step succeeds, or
\* path_exists, open or f.write raises
IOOutcomes == {"ok", "path_exists", "open", "write"}

---------------------------------------------------------------------------
(* The Console and its environment as one value, and the methods as       *)
(* functions on it                                                         *)

World ==
    [directory |-> directory, terminal |-> terminal, _log |-> _log,
     path |-> path, labels |-> labels,
     stdout |-> stdout, files |-> files, raised |-> raised]

\* Console.__init__, after path_exists(directory) returned
__init__(dir, term, timestamp) ==
    [directory |-> dir, terminal |-> term, _log |-> TRUE,
     path |-> dir \o IntToStr(timestamp) \o ".log", labels |-> <<>>,
     stdout |-> <<>>, files |-> [p \in {} |-> <<>>], raised |-> "none"]

\* a call of an output function fn(*args, end=end), recorded on the terminal
Emit(w, fn, args, end) ==
    [w EXCEPT !.stdout = Append(@, [fn |-> fn, args |-> args, end |-> end])]

\* print(*args, end=end)
print(w, args, end) == Emit(w, "print", args, end)

\* prizm.util.file.path_exists(path): TRUE when it returns, FALSE when it raises
path_exists(io) == io # "path_exists"

\* open(p, "a"): the file exists afterwards, its contents kept
open_a(fs, p) == IF p \in DOMAIN fs THEN fs ELSE fs @@ (p :> <<>>)

\* _write with its body in a try/except that discards the failure
_write_swallow(w, args, io) ==
    IF w.path # None /\ io = "ok"
    THEN LET p == "./log/" \o w.path
         IN [w EXCEPT !.files =
                [open_a(@, p) EXCEPT
                   ![p] = Append(@, join(" ", map_str(args)) \o "\n")]]
    ELSE w

\* Console._write
_write(w, args, io) ==
    IF w.path # None
    THEN LET p == "./log/" \o w.path
         IN IF ~path_exists(io) THEN [w EXCEPT !.raised = "ValueError"]
            ELSE IF io = "open" THEN [w EXCEPT !.raised = "OSError"]
            ELSE IF io = "write"
                 THEN [w EXCEPT !.files = open_a(@, p), !.raised = "OSError"]
            ELSE [w EXCEPT !.files =
                     [open_a(@, p) EXCEPT
                        ![p] = Append(@, join(" ", map_str(args)) \o "\n")]]
    ELSE w

\* label that registers a label only once
label_unique(w, l) == IF In(l, w.labels) THEN w ELSE [w EXCEPT !.labels = Append(@, l)]

\* Console.label
label(w, l) == [w EXCEPT !.labels = Append(@, l)]

RECURSIVE print_each(_, _)
\* for arg in args: print(arg, end=" ")
print_each(w, args) ==
    IF Len(args) = 0 THEN w
    ELSE print_each(print(w, <<Head(args)>>, " "), Tail(args))

\* warning that appends to the file only when _log is set
warning_gated(w, args, io) ==
    LET w1 == print(w, <<PyStr("\\033[1;35mWARNING: \\033[0m")>>, "")
        w2 == print_each(w1, args)
    IN IF w2._log = TRUE THEN _write(w2, <<PyStr("WARNING:")>> \o args, io) ELSE w2

\* Console.warning
warning(w, args, io) ==
    LET w1 == print(w, <<PyStr("\\033[1;35mWARNING: \\033[0m")>>, "")
        w2 == print_each(w1, args)
    IN _write(w2, <<PyStr("WARNING:")>> \o args, io)

\* Console.error
error(w, args, io) ==
    LET w1 == print(w, <<PyStr("\\033[1;31mERROR: \\033[0m")>>, "")
        w2 == print_each(w1, args)
    IN _write(w2, <<PyStr("ERROR:")>> \o args, io)

\* Console.err
err(w, args, io) == error(w, args, io)

\* Console.warn
warn(w, args, io) == warning(w, args, io)

\* Console.set_log
set_log(w, log_gate) == [w EXCEPT !._log = log_gate]

\* _color_switch that prints in the default colour when no name matches
_color_switch_default(w, color, args) ==
    IF color \in ColorNames THEN Emit(w, color, args, None)
    ELSE print(w, args, "\n")

\* Console._color_switch
_color_switch(w, color, args) ==
    IF color = None THEN print(w, args, "\n")
    ELSE IF color = "GRE" THEN Emit(w, "GRE", args, None)
    ELSE IF color = "RED" THEN Emit(w, "RED", args, None)
    ELSE IF color = "BLU" THEN Emit(w, "BLU", args, None)
    ELSE IF color = "YEL" THEN Emit(w, "YEL", args, None)
    ELSE IF color = "MAG" THEN Emit(w, "MAG", args, None)
    ELSE IF color = "CYA" THEN Emit(w, "CYA", args, None)
    ELSE IF color = "BGRE" THEN Emit(w, "BGRE", args, None)
    ELSE IF color = "BRED" THEN Emit(w, "BRED", args, None)
    ELSE IF color = "BBLU" THEN Emit(w, "BBLU", args, None)
    ELSE IF color = "BYEL" THEN Emit(w, "BYEL", args, None)
    ELSE IF color = "BMAG" THEN Emit(w, "BMAG", args, None)
    ELSE IF color = "BCYA" THEN Emit(w, "BCYA", args, None)
    ELSE w

\* out that prints only when the terminal flag is set, as log does
out_gated(w, args, color, io) ==
    LET w1 == IF w.terminal = TRUE THEN _color_switch(w, color, args) ELSE w
    IN IF w1.path # None THEN _write(w1, args, io) ELSE w1

\* Console.out
out(w, args, color, io) ==
    LET w1 == _color_switch(w, color, args)
    IN IF w1.path # None THEN _write(w1, args, io) ELSE w1

\* the body log runs for a call that is let through
log_emit(w, args, color, io) ==
    IF w.terminal = TRUE
    THEN LET w1 == _color_switch(w, color, args)
         IN IF w1.path # None THEN _write(w1, args, io) ELSE w1
    ELSE IF w.path # None THEN _write(w, args, io) ELSE w

\* log without the membership test: any label is let through
log_unfiltered(w, args, color, lbl, io) == log_emit(w, args, color, io)

\* log without its two elif branches: nothing is appended when the
\* terminal flag is false
log_terminal_only(w, args, color, lbl, io) ==
    IF lbl # None /\ ~In(lbl, w.labels) THEN w
    ELSE IF w.terminal = TRUE THEN log_emit(w, args, color, io)
    ELSE w

RECURSIVE log_repeat(_, _, _, _, _)
log_repeat(w, n, args, color, io) ==
    IF n = 0 \/ w.raised # "none" THEN w
    ELSE log_repeat(log_emit(w, args, color, io), n - 1, args, color, io)

\* log that loops over labels and emits once per entry equal to the label
log_per_label(w, args, color, lbl, io) ==
    IF lbl # None
    THEN log_repeat(w, Cardinality({i \in 1..Len(w.labels) : w.labels[i] = lbl}),
                    args, color, io)
    ELSE log_emit(w, args, color, io)

\* log that appends to the file only when _log is set
log_honours_flag(w, args, color, lbl, io) ==
    IF lbl # None /\ ~In(lbl, w.labels) THEN w
    ELSE LET w1 == IF w.terminal = TRUE THEN _color_switch(w, color, args) ELSE w
         IN IF w1.path # None /\ w1._log = TRUE THEN _write(w1, args, io) ELSE w1

\* Console.log
log(w, args, color, lbl, io) ==
    IF lbl # None
    THEN IF In(lbl, w.labels)
         THEN IF w.terminal = TRUE
              THEN LET w1 == _color_switch(w, color, args)
                   IN IF w1.path # None THEN _write(w1, args, io) ELSE w1
              ELSE IF w.path # None THEN _write(w, args, io) ELSE w
         ELSE w
    ELSE IF w.terminal = TRUE
         THEN LET w1 == _color_switch(w, color, args)
              IN IF w1.path # None THEN _write(w1, args, io) ELSE w1
         ELSE IF w.path # None THEN _write(w, args, io) ELSE w

---------------------------------------------------------------------------
(* The state machine: one action per public method *)

\* a new call starts with no exception pending
Enter(w) == [w EXCEPT !.raised = "none"]

\* the Console and its environment become w
Becomes(w) ==
    /\ directory' = w.directory
    /\ terminal' = w.terminal
    /\ _log' = w._log
    /\ path' = w.path
    /\ labels' = w.labels
    /\ stdout' = w.stdout
    /\ files' = w.files
    /\ raised' = w.raised

\* the Console and its environment are w
Constructed(w) ==
    /\ directory = w.directory
    /\ terminal = w.terminal
    /\ _log = w._log
    /\ path = w.path
    /\ labels = w.labels
    /\ stdout = w.stdout
    /\ files = w.files
    /\ raised = w.raised

\* a call and its arguments
Call(op, args, color, lbl, io) ==
    [op |-> op, args |-> args, color |-> color, label |-> lbl, io |-> io]

Init ==
    \E dir \in Directories, term \in BOOLEAN, ts \in Timestamps :
        /\ Constructed(__init__(dir, term, ts))
        /\ ref = __init__(dir, term, ts)
        /\ last = Call("__init__", <<>>, None, None, "ok")
        /\ ncalls = 0

Label ==
    \E l \in LabelNames :
        /\ Len(labels) < MaxLabels
        /\ Becomes(label(Enter(World), l))
        /\ ref' = label(Enter(ref), l)
        /\ last' = Call("label", <<>>, None, l, "ok")
        /\ UNCHANGED ncalls

SetLog ==
    \E b \in BOOLEAN :
        /\ Becomes(set_log(Enter(World), b))
        /\ last' = Call("set_log", <<>>, None, None, "ok")
        /\ UNCHANGED <<ncalls, ref>>

Warning ==
    \E args \in ArgSeqs, io \in IOOutcomes :
        /\ ncalls < MaxCalls
        /\ Becomes(warning(Enter(World), args, io))
        /\ ref' = warning(Enter(ref), args, io)
        /\ last' = Call("warning", args, None, None, io)
        /\ ncalls' = ncalls + 1

Error ==
    \E args \in ArgSeqs, io \in IOOutcomes :
        /\ ncalls < MaxCalls
        /\ Becomes(error(Enter(World), args, io))
        /\ ref' = error(Enter(ref), args, io)
        /\ last' = Call("error", args, None, None, io)
        /\ ncalls' = ncalls + 1

Warn ==
    \E args \in ArgSeqs, io \in IOOutcomes :
        /\ ncalls < MaxCalls
        /\ Becomes(warn(Enter(World), args, io))
        /\ ref' = warn(Enter(ref), args, io)
        /\ last' = Call("warn", args, None, None, io)
        /\ ncalls' = ncalls + 1

Err ==
    \E args \in ArgSeqs, io \in IOOutcomes :
        /\ ncalls < MaxCalls
        /\ Becomes(err(Enter(World), args, io))
        /\ ref' = err(Enter(ref), args, io)
        /\ last' = Call("err", args, None, None, io)
        /\ ncalls' = ncalls + 1

Out ==
    \E args \in ArgSeqs, color \in Colors, io \in IOOutcomes :
        /\ ncalls < MaxCalls
        /\ Becomes(out(Enter(World), args, color, io))
        /\ ref' = out(Enter(ref), args, color, io)
        /\ last' = Call("out", args, color, None, io)
        /\ ncalls' = ncalls + 1

Log ==
    \E args \in ArgSeqs, color \in Colors,
       lbl \in LabelNames \cup {None}, io \in IOOutcomes :
        /\ ncalls < MaxCalls
        /\ Becomes(log(Enter(World), args, color, lbl, io))
        /\ ref' = log(Enter(ref), args, color, lbl, io)
        /\ last' = Call("log", args, color, lbl, io)
        /\ ncalls' = ncalls + 1

Next ==
    \/ Label
    \/ SetLog
    \/ Warning
    \/ Error
    \/ Warn
    \/ Err
    \/ Out
    \/ Log

Spec == Init /\ [][Next]_vars

---------------------------------------------------------------------------
(* What the calls are expected to do, stated without the model's own      *)
(* operators, for the argument tuples of ArgSeqs                          *)

\* the file _write appends to
LogFilePath == "./log/" \o path

\* the strings written so far to the file at p (none when it does not exist)
Records(fs, p) == IF p \in DOMAIN fs THEN fs[p] ELSE <<>>

\* the arguments, each converted with str, separated by single spaces
SpaceJoined(args) ==
    CASE args = <<>> -> ""
      [] args = <<PyStr("x"), PyInt(12)>> -> "x 12"

\* fs2 is fs with exactly one string, text, appended to the file at p
AppendsOne(fs, fs2, p, text) ==
    /\ DOMAIN fs2 = DOMAIN fs \cup {p}
    /\ \A q \in DOMAIN fs : q # p => fs2[q] = fs[q]
    /\ fs2[p] = Append(Records(fs, p), text)

\* fs2 holds the same strings as fs in every file (a file that did not
\* exist may now exist, empty)
AppendsNone(fs, fs2) ==
    /\ DOMAIN fs \subseteq DOMAIN fs2
    /\ \A q \in DOMAIN fs2 : fs2[q] = Records(fs, q)

\* the terminal calls of the colour dispatch of args
Dispatch(color, args) ==
    IF color = None THEN <<[fn |-> "print", args |-> args, end |-> "\n"]>>
    ELSE IF color \in ColorNames THEN <<[fn |-> color, args |-> args, end |-> None]>>
    ELSE <<>>

\* the terminal calls of warning/error: the coloured prefix, then each
\* argument followed by a space
Prefixed(prefix, args) ==
    <<[fn |-> "print", args |-> <<PyStr(prefix)>>, end |-> ""]>>
    \o [i \in 1..Len(args) |-> [fn |-> "print", args |-> <<args[i]>>, end |-> " "]]

WarningOps == {"warning", "warn"}

ErrorOps == {"error", "err"}

\* the coloured terminal prefix of the call op
TerminalPrefix(op) ==
    IF op \in WarningOps THEN "\\033[1;35mWARNING: \\033[0m"
    ELSE "\\033[1;31mERROR: \\033[0m"

\* the log-file prefix of the call op, as the specification words it
LevelPrefix(op) == IF op \in WarningOps THEN "WARNING: " ELSE "ERROR: "

\* the level tag _write receives as its first argument
LevelTag(op) == IF op \in WarningOps THEN "WARNING:" ELSE "ERROR:"

\* the label of call c lets it through: absent, or registered in lbls
Passes(c, lbls) == c.label = None \/ In(c.label, lbls)

---------------------------------------------------------------------------
(* C1 *)

\* C1: a log call whose label is given and is not registered produces no
\* terminal output and appends nothing to any file, whatever the terminal
\* flag, the _log flag and the calls made before
C1_UnregisteredLabelDropped ==
    [][(last'.op = "log" /\ last'.label # None /\ ~In(last'.label, labels))
        => /\ stdout' = stdout
           /\ files' = files
           /\ raised' = "none"]_vars

\* a log call with an unregistered label was made on a Console that has
\* registered another label and has already printed and appended
C1_Witness ==
    /\ last.op = "log"
    /\ last.label = "B"
    /\ labels = <<"A">>
    /\ Len(stdout) > 0
    /\ Len(Records(files, LogFilePath)) > 0

---------------------------------------------------------------------------
(* C2 *)

\* C2: a log call whose label is absent or registered runs the colour
\* dispatch of its arguments on the terminal exactly when the terminal flag
\* is true, and, the file system accepting the append, appends exactly one
\* record for its arguments whatever the terminal flag is; the effects do
\* not depend on whether the label is absent or registered
C2_LogPrintsIffTerminalAndAppends ==
    [][(last'.op = "log" /\ Passes(last', labels))
        => /\ stdout' = IF terminal = TRUE
                        THEN stdout \o Dispatch(last'.color, last'.args)
                        ELSE stdout
           /\ last'.io = "ok"
                => /\ AppendsOne(files, files', LogFilePath,
                                 SpaceJoined(last'.args) \o "\n")
                   /\ raised' = "none"]_vars

\* a log call with a registered label appended its record to a file that
\* already held one, on a Console whose terminal flag is false, and printed
\* nothing
C2_Witness ==
    /\ last.op = "log"
    /\ last.label = "A"
    /\ In("A", labels)
    /\ last.io = "ok"
    /\ last.args = <<PyStr("x"), PyInt(12)>>
    /\ terminal = FALSE
    /\ Records(files, LogFilePath) = <<"\n", "x 12\n">>
    /\ stdout = <<>>

---------------------------------------------------------------------------
(* C3 *)

\* the arguments, each converted with str and preceded by a single space
LeadingSpaced(args) ==
    CASE args = <<>> -> ""
      [] args = <<PyStr("x"), PyInt(12)>> -> " x 12"

\* C3 as claimed: warning and error (and warn, err), whatever the two flags
\* are, print their prefix followed by the arguments and append the line
\* "WARNING: " (resp. "ERROR: ") + the space-joined arguments, for every
\* argument tuple including the empty one
C3_AsClaimed ==
    [][last'.op \in WarningOps \cup ErrorOps
        => /\ stdout' = stdout \o Prefixed(TerminalPrefix(last'.op), last'.args)
           /\ last'.io = "ok"
                => AppendsOne(files, files', LogFilePath,
                              LevelPrefix(last'.op) \o SpaceJoined(last'.args)
                                \o "\n")]_vars

\* C3 (amended): warning and error (and warn, err), whatever the two flags
\* are, print their prefix followed by each argument and, the file system
\* accepting the append, append exactly one line: "WARNING:" (resp.
\* "ERROR:") followed by a space and the argument for each argument, so
\* with no arguments the line is "WARNING:" (resp. "ERROR:") with no
\* trailing space
C3_LevelTaggedOutput ==
    [][last'.op \in WarningOps \cup ErrorOps
        => /\ stdout' = stdout \o Prefixed(TerminalPrefix(last'.op), last'.args)
           /\ last'.io = "ok"
                => /\ AppendsOne(files, files', LogFilePath,
                                 LevelTag(last'.op) \o LeadingSpaced(last'.args)
                                   \o "\n")
                   /\ raised' = "none"]_vars

\* warn was called with no arguments with both flags false, and wrote its
\* line after an earlier record
C3_Witness ==
    /\ last.op = "warn"
    /\ last.args = <<>>
    /\ last.io = "ok"
    /\ terminal = FALSE
    /\ _log = FALSE
    /\ Len(Records(files, LogFilePath)) = 2
    /\ Records(files, LogFilePath)[2] = "WARNING:\n"

---------------------------------------------------------------------------
(* C4 *)

\* C4: out runs the colour dispatch of its arguments on the terminal and,
\* the file system accepting the append, appends exactly one record (the
\* arguments space-joined, newline-terminated), whatever terminal, _log and
\* labels are
C4_OutUnconditional ==
    [][last'.op = "out"
        => /\ stdout' = stdout \o Dispatch(last'.color, last'.args)
           /\ last'.io = "ok"
                => /\ AppendsOne(files, files', LogFilePath,
                                 SpaceJoined(last'.args) \o "\n")
                   /\ raised' = "none"]_vars

\* out printed and appended with terminal and _log both false and a label
\* registered
C4_Witness ==
    /\ last.op = "out"
    /\ last.io = "ok"
    /\ last.args = <<PyStr("x"), PyInt(12)>>
    /\ terminal = FALSE
    /\ _log = FALSE
    /\ Len(labels) > 0
    /\ Len(stdout) = 2
    /\ stdout[2] = [fn |-> "print", args |-> last.args, end |-> "\n"]
    /\ Len(Records(files, LogFilePath)) = 2
    /\ Records(files, LogFilePath)[2] = "x 12\n"

---------------------------------------------------------------------------
(* C5 *)

\* the call c is one that appends: an out, warning or error call, or a log
\* call that its label lets through, answered by a working file system
Appending(c, lbls) ==
    /\ c.io = "ok"
    /\ \/ c.op \in {"out"} \cup WarningOps \cup ErrorOps
       \/ c.op = "log" /\ Passes(c, lbls)

\* the space-joined arguments _write receives from the call c
WrittenLine(c) ==
    IF c.op \in WarningOps \cup ErrorOps
    THEN LevelTag(c.op) \o LeadingSpaced(c.args) \o "\n"
    ELSE SpaceJoined(c.args) \o "\n"

---------------------------------------------------------------------------
(* C6 *)

\* C6 as claimed: every file an operation of the Console creates or
\* appends to is the file at self.path
C6_AppendsGoToPath == \A p \in DOMAIN files : p = path

---------------------------------------------------------------------------
(* C7 *)

\* C7: labels is empty after construction; label(L) appends L at the end,
\* also when L is already there, and raises nothing; no other call changes
\* labels
C7_LabelsOnlyGrowByLabel ==
    /\ labels = <<>>
    /\ [][IF last'.op = "label"
          THEN labels' = Append(labels, last'.label) /\ raised' = "none"
          ELSE labels' = labels]_vars

\* a label already registered was registered again
C7_Witness ==
    /\ last.op = "label"
    /\ labels = <<"B", "B">>

---------------------------------------------------------------------------
(* C8 *)

---------------------------------------------------------------------------
(* C9 *)

\* C9: in every state, the colour dispatch with colour None prints the
\* arguments with the builtin print, with one of the twelve names calls the
\* colour function of that name once, and with any other name does nothing;
\* it changes nothing else and raises nothing
C9_ColorDispatch ==
    \A color \in AllColors, args \in ArgSeqs :
        _color_switch(World, color, args)
            = [World EXCEPT !.stdout = @ \o Dispatch(color, args)]

\* out was called with an unknown colour name: nothing reached the
\* terminal, nothing was raised and the record was appended
C9_Witness ==
    /\ last.op = "out"
    /\ last.color = "PURPLE"
    /\ last.io = "ok"
    /\ raised = "none"
    /\ stdout = <<>>
    /\ Len(Records(files, LogFilePath)) = 1

---------------------------------------------------------------------------
(* C10 *)

\* C10 as claimed: a warning or error call whose file append fails returns
\* normally
C10_AsClaimed ==
    (last.op \in WarningOps \cup ErrorOps /\ last.io # "ok") => raised = "none"

\* C10 (amended): a warning or error call whose file append fails (in the
\* path check, the open or the write) raises that failure to its caller,
\* after having written its terminal output and without appending a record
C10_AppendFailurePropagates ==
    [][(last'.op \in WarningOps \cup ErrorOps /\ last'.io # "ok")
        => /\ raised' # "none"
           /\ stdout' = stdout \o Prefixed(TerminalPrefix(last'.op), last'.args)
           /\ AppendsNone(files, files')]_vars

\* error was called while the write to the log file failed: the terminal
\* output is there, the file has only its earlier record
C10_Witness ==
    /\ last.op = "error"
    /\ last.io = "write"
    /\ last.args = <<PyStr("x"), PyInt(12)>>
    /\ raised = "OSError"
    /\ Len(stdout) >= 3
    /\ Len(Records(files, LogFilePath)) = 1

===========================================================================
